---- MODULE Spec2Model ----
(***************************************************************************)
(* A model of the TCP echo/add server of src/src/server.rs: the Acceptor   *)
(* (Server::run), the shutdown call (Server::stop), one Connection Handler *)
(* per accepted connection (Client::handle), and the peers that drive      *)
(* them (tests/client.rs).  Sockets are byte queues; the protobuf codec is *)
(* modelled at the level of bytes.                                         *)
(***************************************************************************)
EXTENDS Integers, Sequences, FiniteSets, TLC

\* ------------------------------------------------------------------ bounds
MaxConns == 2      \* connections that peers open during one run
MaxPeerOps == 4    \* connects, writes and closes the peers make in all
MaxStops == 1      \* calls of stop() made by the controlling thread

\* ------------------------------------------------------- program constants
BufferSize == 1024          \* let mut buffer = [0; 1024]
INT_MAX == 2147483647       \* i32::MAX, the type of add.a, add.b, result
INT_MIN == -INT_MAX - 1     \* i32::MIN

Conns == 1..MaxConns
None == [tag |-> "None"]

\* ----------------------------------------------------------- i32 addition
\* The mathematical sum a + b lies outside the range of i32.
Overflows(a, b) ==
    \/ (b > 0 /\ a > INT_MAX - b)
    \/ (b < 0 /\ a < INT_MIN - b)

\* a + b reduced modulo 2^32 into the range of i32 (computed without leaving
\* that range).
WrappingAdd(a, b) ==
    IF b > 0 /\ a > INT_MAX - b THEN (a + INT_MIN) + (b + INT_MIN)
    ELSE IF b < 0 /\ a < INT_MIN - b THEN (a - INT_MIN) + (b - INT_MIN)
    ELSE a + b

\* --------------------------------------------------------- protobuf codec
\* Messages (message.proto):
\*   EchoMessage   { string content = 1; }
\*   AddRequest    { int32 a = 1; int32 b = 2; }
\*   AddResponse   { int32 result = 1; }
\*   ClientMessage { oneof message { EchoMessage echo_message = 1;
\*                                   AddRequest  add_request  = 2; } }
\*   ServerMessage { oneof message { EchoMessage echo_message = 1;
\*                                   AddResponse add_response = 2; } }
\* A string is the sequence of its bytes; the model's strings are ASCII.

Echo(content) == [tag |-> "Echo", content |-> content]
AddRequest(a, b) == [tag |-> "AddRequest", a |-> a, b |-> b]
AddResponse(result) == [tag |-> "AddResponse", result |-> result]

Pow2(k) == 2 ^ k

\* Base-128 varint of a natural number below 2^31.
RECURSIVE EncodeVarint(_)
EncodeVarint(n) ==
    IF n < 128 THEN <<n>>
    ELSE <<(n % 128) + 128>> \o EncodeVarint(n \div 128)

\* Varint of an int32: the value is sign-extended to 64 bits, so a negative
\* value takes ten bytes.
EncodeInt32(v) ==
    IF v >= 0 THEN EncodeVarint(v)
    ELSE LET low == v - INT_MIN      \* bits 0..30 of the two's complement
         IN  << (low % 128) + 128,
                ((low \div Pow2(7)) % 128) + 128,
                ((low \div Pow2(14)) % 128) + 128,
                ((low \div Pow2(21)) % 128) + 128,
                ((low \div Pow2(28)) + 120) + 128,
                255, 255, 255, 255, 1 >>

\* A field key: (field number << 3) | wire type.
Key(field, wt) == EncodeVarint(field * 8 + wt)

\* An int32 field; proto3 omits a field that holds its default, 0.
EncodeInt32Field(field, v) ==
    IF v = 0 THEN <<>> ELSE Key(field, 0) \o EncodeInt32(v)

\* A length-delimited field.
EncodeLenField(field, bytes) ==
    Key(field, 2) \o EncodeVarint(Len(bytes)) \o bytes

\* The body of the message held in the oneof.
EncodeBody(m) ==
    CASE m.tag = "Echo" ->
           IF m.content = <<>> THEN <<>> ELSE EncodeLenField(1, m.content)
      [] m.tag = "AddRequest" ->
           EncodeInt32Field(1, m.a) \o EncodeInt32Field(2, m.b)
      [] m.tag = "AddResponse" -> EncodeInt32Field(1, m.result)

\* ClientMessage::encode / ServerMessage::encode_to_vec: a message whose
\* oneof is unset encodes to no bytes.
EncodeMessage(m) ==
    CASE m.tag = "None" -> <<>>
      [] m.tag = "Echo" -> EncodeLenField(1, EncodeBody(m))
      [] OTHER -> EncodeLenField(2, EncodeBody(m))

Drop(s, n) == SubSeq(s, n + 1, Len(s))
Take(s, n) == SubSeq(s, 1, n)

\* F(e), with e evaluated once however often F uses its argument.
Bind(e, F(_)) == CHOOSE y \in {F(x) : x \in {e}} : TRUE

Err == [ok |-> FALSE]

\* The 7-bit groups of the varint at the head of bytes: at most ten bytes,
\* the tenth at most 1.
RECURSIVE VarintGroups(_, _)
VarintGroups(bytes, n) ==
    IF bytes = <<>> \/ n > 10 THEN Err
    ELSE IF bytes[1] < 128
         THEN IF n = 10 /\ bytes[1] > 1 THEN Err
              ELSE [ok |-> TRUE, groups |-> <<bytes[1]>>, rest |-> Tail(bytes)]
         ELSE Bind(VarintGroups(Tail(bytes), n + 1), LAMBDA r :
                  IF r.ok
                  THEN [ok |-> TRUE, groups |-> <<bytes[1] - 128>> \o r.groups,
                        rest |-> r.rest]
                  ELSE Err)

\* The groups as a natural number; Huge stands for every value of 2^28 or
\* more (no key or length of the model is that large).
Huge == Pow2(28)
GroupsNat(g) ==
    IF \E i \in 5..Len(g) : g[i] # 0 THEN Huge
    ELSE LET At(i) == IF i <= Len(g) THEN g[i] ELSE 0
         IN  At(1) + At(2) * Pow2(7) + At(3) * Pow2(14) + At(4) * Pow2(21)

\* The groups cast to i32: the low 32 bits, as a two's-complement number.
GroupsInt32(g) ==
    LET At(i) == IF i <= Len(g) THEN g[i] ELSE 0
        low == At(1) + At(2) * Pow2(7) + At(3) * Pow2(14) + At(4) * Pow2(21)
               + (At(5) % 8) * Pow2(28)
    IN  IF (At(5) % 16) >= 8 THEN low + INT_MIN ELSE low

\* The field <<field, wire type, value>> put before the fields r parsed
\* after it.
Cons(field, wt, value, r) ==
    IF r.ok
    THEN [ok |-> TRUE,
          fields |-> <<[field |-> field, wt |-> wt, value |-> value]>> \o r.fields,
          rest |-> r.rest]
    ELSE Err

\* The fields at the top level of bytes, or a decode error: a bad key, a
\* truncated value, an unmatched group. open is the field number of the
\* group being skipped, 0 outside a group; the input that follows the end
\* of the group is returned as rest.
RECURSIVE ParseFields(_, _)
RECURSIVE ParseValue(_, _, _, _)
ParseFields(bytes, open) ==
    IF bytes = <<>>
    THEN IF open = 0 THEN [ok |-> TRUE, fields |-> <<>>, rest |-> <<>>] ELSE Err
    ELSE Bind(VarintGroups(bytes, 1), LAMBDA k :
             IF ~k.ok \/ GroupsNat(k.groups) >= Huge THEN Err
             ELSE ParseValue(GroupsNat(k.groups) \div 8,
                             GroupsNat(k.groups) % 8, k.rest, open))

\* The value of a field of wire type wt at the head of bytes, and the
\* fields after it.
ParseValue(field, wt, bytes, open) ==
    IF wt > 5 \/ field = 0 THEN Err
    ELSE CASE wt = 0 ->
                Bind(VarintGroups(bytes, 1), LAMBDA v :
                    IF ~v.ok THEN Err
                    ELSE Bind(ParseFields(v.rest, open), LAMBDA r :
                             Cons(field, wt, v.groups, r)))
           [] wt = 1 ->
                IF Len(bytes) < 8 THEN Err
                ELSE Bind(ParseFields(Drop(bytes, 8), open), LAMBDA r :
                         Cons(field, wt, Take(bytes, 8), r))
           [] wt = 5 ->
                IF Len(bytes) < 4 THEN Err
                ELSE Bind(ParseFields(Drop(bytes, 4), open), LAMBDA r :
                         Cons(field, wt, Take(bytes, 4), r))
           [] wt = 2 ->
                Bind(VarintGroups(bytes, 1), LAMBDA l :
                    IF ~l.ok THEN Err
                    ELSE IF GroupsNat(l.groups) > Len(l.rest) THEN Err
                    ELSE Bind(ParseFields(Drop(l.rest, GroupsNat(l.groups)), open),
                              LAMBDA r :
                                 Cons(field, wt,
                                      Take(l.rest, GroupsNat(l.groups)), r)))
           [] wt = 3 ->
                Bind(ParseFields(bytes, field), LAMBDA g :
                    IF ~g.ok THEN Err
                    ELSE Bind(ParseFields(g.rest, open), LAMBDA r :
                             Cons(field, wt, <<>>, r)))
           [] wt = 4 ->
                IF open # 0 /\ field = open
                THEN [ok |-> TRUE, fields |-> <<>>, rest |-> bytes]
                ELSE Err

\* Bytes that are valid UTF-8 (the model's strings are ASCII).
ValidUtf8(bytes) == \A i \in 1..Len(bytes) : bytes[i] < 128

\* Merges the field f of a message body into the value m of that message
\* type: a known field of the wrong wire type or with invalid UTF-8 is a
\* decode error, an unknown field is skipped, a repeated field overwrites.
MergeField(m, f) ==
    CASE m.tag = "Echo" /\ f.field = 1 ->
           IF f.wt # 2 \/ ~ValidUtf8(f.value) THEN Err
           ELSE [ok |-> TRUE, value |-> [m EXCEPT !.content = f.value]]
      [] m.tag = "AddRequest" /\ f.field = 1 ->
           IF f.wt # 0 THEN Err
           ELSE [ok |-> TRUE, value |-> [m EXCEPT !.a = GroupsInt32(f.value)]]
      [] m.tag = "AddRequest" /\ f.field = 2 ->
           IF f.wt # 0 THEN Err
           ELSE [ok |-> TRUE, value |-> [m EXCEPT !.b = GroupsInt32(f.value)]]
      [] m.tag = "AddResponse" /\ f.field = 1 ->
           IF f.wt # 0 THEN Err
           ELSE [ok |-> TRUE, value |-> [m EXCEPT !.result = GroupsInt32(f.value)]]
      [] OTHER -> [ok |-> TRUE, value |-> m]

\* Merges the fields of a message body, in order, into m.
RECURSIVE MergeBody(_, _)
MergeBody(m, fields) ==
    IF fields = <<>> THEN [ok |-> TRUE, value |-> m]
    ELSE Bind(MergeField(m, Head(fields)), LAMBDA b :
             IF b.ok THEN MergeBody(b.value, Tail(fields)) ELSE Err)

\* Merges the top-level fields into the oneof m: field 1 holds an
\* EchoMessage, field 2 holds second (an AddRequest for a ClientMessage, an
\* AddResponse for a ServerMessage); a field of the variant already held is
\* merged into it, a field of the other variant replaces it.
RECURSIVE MergeOneof(_, _, _)
MergeOneof(m, fields, second) ==
    IF fields = <<>> THEN [ok |-> TRUE, value |-> m]
    ELSE IF Head(fields).field \notin {1, 2}
    THEN MergeOneof(m, Tail(fields), second)
    ELSE IF Head(fields).wt # 2 THEN Err
    ELSE Bind(ParseFields(Head(fields).value, 0), LAMBDA inner :
             IF ~inner.ok THEN Err
             ELSE Bind(MergeBody(
                          IF Head(fields).field = 1
                          THEN (IF m.tag = "Echo" THEN m ELSE Echo(<<>>))
                          ELSE (IF m.tag = second.tag THEN m ELSE second),
                          inner.fields),
                       LAMBDA b :
                          IF b.ok THEN MergeOneof(b.value, Tail(fields), second)
                          ELSE Err))

DecodeOneof(bytes, second) ==
    Bind(ParseFields(bytes, 0), LAMBDA p :
        IF p.ok THEN MergeOneof(None, p.fields, second) ELSE Err)

\* ClientMessage::decode: [ok |-> FALSE] is Err; value None is Ok with
\* message: None.
DecodeClientMessage(bytes) == DecodeOneof(bytes, AddRequest(0, 0))

\* ServerMessage::decode.
DecodeServerMessage(bytes) == DecodeOneof(bytes, AddResponse(0))

\* ------------------------------------------------------------------ state
VARIABLES
    is_running,       \* Server.is_running: the shared AtomicBool
    clients,          \* Server.clients: the registry, a Vec of stream clones
    lock,             \* holder of the registry Mutex: "free", "run", "stop"
    rpc,              \* position of the thread inside run()
    stream,           \* run(): the stream accept() returned, 0 when none
    spc,              \* position of the controlling thread inside stop()
    drained,          \* stop(): what drain(..) has still to yield
    stops,            \* calls of stop() that have returned
    backlog,          \* the listener's queue of connections not yet accepted
    peer,             \* per connection, its client: "none", "open", "closed"
    inbuf,            \* per connection, bytes sent by the peer and not yet read
    outbuf,           \* per connection, bytes the server wrote to the peer
    shut,             \* per connection, shutdown(Both) has succeeded on it
    reset,            \* per connection, the peer has reset it
    hpc,              \* per connection, position of its handler thread
    response,         \* per connection, handle(): the response to write
    sends,            \* the writes the peers have made, all connections
    sent,             \* history: per connection, the chunks its peer wrote
    reqs,             \* history: per connection, the requests decoded
    resps,            \* history: per connection, the responses written
    registered_at_stop, \* history: the registry when stop() was last called
    overflow_checks   \* the build: integer overflow panics (debug profile)

vars == << is_running, clients, lock, rpc, stream, spc, drained, stops,
           backlog, peer, inbuf, outbuf, shut, reset, hpc, response,
           sends, sent, reqs, resps, registered_at_stop, overflow_checks >>

serverVars == << is_running, clients, lock, rpc, stream, spc, drained, stops,
                 registered_at_stop >>
peerVars == << backlog, peer, sends, sent >>
sockVars == << inbuf, outbuf, shut, reset >>
handlerVars == << hpc, response, reqs, resps >>
buildVars == << overflow_checks >>

\* Server::new_with_port: the flag is true and the registry empty; run() has
\* been handed to its thread and has not performed a statement yet.
InitWith(Builds) ==
    /\ is_running = TRUE
    /\ clients = <<>>
    /\ lock = "free"
    /\ rpc = "start"
    /\ stream = 0
    /\ spc = "idle"
    /\ drained = <<>>
    /\ stops = 0
    /\ backlog = <<>>
    /\ peer = [c \in Conns |-> "none"]
    /\ inbuf = [c \in Conns |-> <<>>]
    /\ outbuf = [c \in Conns |-> <<>>]
    /\ shut = [c \in Conns |-> FALSE]
    /\ reset = [c \in Conns |-> FALSE]
    /\ hpc = [c \in Conns |-> "none"]
    /\ response = [c \in Conns |-> None]
    /\ sends = 0
    /\ sent = [c \in Conns |-> <<>>]
    /\ reqs = [c \in Conns |-> <<>>]
    /\ resps = [c \in Conns |-> <<>>]
    /\ registered_at_stop = {}
    /\ overflow_checks \in Builds

Range(s) == {s[i] : i \in 1..Len(s)}

\* The operations the peers have made so far: connects, writes, closes.
PeerOps ==
    Cardinality({c \in Conns : peer[c] # "none"}) + sends
    + Cardinality({c \in Conns : peer[c] = "closed"})

\* ------------------------------------------------------------ Server::run
\* self.is_running.store(true, SeqCst)
RunStore ==
    /\ rpc = "start"
    /\ is_running' = TRUE
    /\ rpc' = "nonblock"
    /\ UNCHANGED << clients, lock, stream, spc, drained, stops,
                    registered_at_stop >>
    /\ UNCHANGED << peerVars, sockVars, handlerVars, buildVars >>

\* self.listener.set_nonblocking(true)?
RunSetNonblocking ==
    /\ rpc = "nonblock"
    /\ \E ok \in BOOLEAN : rpc' = IF ok THEN "loop" ELSE "err"
    /\ UNCHANGED << is_running, clients, lock, stream, spc, drained, stops,
                    registered_at_stop >>
    /\ UNCHANGED << peerVars, sockVars, handlerVars, buildVars >>

\* while self.is_running.load(SeqCst) { ... }  info!("Server stopped."); Ok(())
\* The test is reached from the end of every arm of the match.
RunLoopTest ==
    /\ rpc \in {"loop", "warn"}
    /\ rpc' = IF is_running THEN "accept" ELSE "ok"
    /\ UNCHANGED << is_running, clients, lock, stream, spc, drained, stops,
                    registered_at_stop >>
    /\ UNCHANGED << peerVars, sockVars, handlerVars, buildVars >>

\* self.listener.accept() returns Ok((stream, addr))
RunAcceptOk ==
    /\ rpc = "accept"
    /\ backlog # <<>>
    /\ stream' = Head(backlog)
    /\ backlog' = Tail(backlog)
    /\ rpc' = "lock"
    /\ UNCHANGED << is_running, clients, lock, spc, drained, stops,
                    registered_at_stop, peer, sends, sent >>
    /\ UNCHANGED << sockVars, handlerVars, buildVars >>

\* accept() returns WouldBlock: thread::sleep(100ms), next iteration
RunAcceptWouldBlock ==
    /\ rpc = "accept"
    /\ backlog = <<>>
    /\ rpc' = "loop"
    /\ UNCHANGED << is_running, clients, lock, stream, spc, drained, stops,
                    registered_at_stop >>
    /\ UNCHANGED << peerVars, sockVars, handlerVars, buildVars >>

\* A run() that returns the error of accept() to its caller.
RunAcceptErr_Fatal ==
    /\ rpc = "accept"
    /\ rpc' = "err"
    /\ UNCHANGED << is_running, clients, lock, stream, spc, drained, stops,
                    registered_at_stop >>
    /\ UNCHANGED << peerVars, sockVars, handlerVars, buildVars >>

\* accept() returns another error: the thread is at warn!, and the next
\* iteration follows
RunAcceptErr ==
    /\ rpc = "accept"
    /\ rpc' = "warn"
    /\ UNCHANGED << is_running, clients, lock, stream, spc, drained, stops,
                    registered_at_stop >>
    /\ UNCHANGED << peerVars, sockVars, handlerVars, buildVars >>

\* let mut clients = self.clients.lock().unwrap()
RunLock ==
    /\ rpc = "lock"
    /\ lock = "free"
    /\ lock' = "run"
    /\ rpc' = "push"
    /\ UNCHANGED << is_running, clients, stream, spc, drained, stops,
                    registered_at_stop >>
    /\ UNCHANGED << peerVars, sockVars, handlerVars, buildVars >>

\* clients.push(stream.try_clone()?): on an error of try_clone run() returns
\* it, which drops the guard and the accepted stream.
RunPush ==
    /\ rpc = "push"
    /\ \E ok \in BOOLEAN :
         IF ok
         THEN /\ clients' = Append(clients, stream)
              /\ rpc' = "unlock"
              /\ UNCHANGED << lock, stream >>
         ELSE /\ lock' = "free"
              /\ stream' = 0
              /\ rpc' = "err"
              /\ UNCHANGED clients
    /\ UNCHANGED << is_running, spc, drained, stops, registered_at_stop >>
    /\ UNCHANGED << peerVars, sockVars, handlerVars, buildVars >>

\* drop(clients)
RunUnlock ==
    /\ rpc = "unlock"
    /\ lock' = "free"
    /\ rpc' = "spawn"
    /\ UNCHANGED << is_running, clients, stream, spc, drained, stops,
                    registered_at_stop >>
    /\ UNCHANGED << peerVars, sockVars, handlerVars, buildVars >>

\* thread::spawn(move || { let mut client = Client::new(stream); ... })
RunSpawn ==
    /\ rpc = "spawn"
    /\ hpc' = [hpc EXCEPT ![stream] = "loop"]
    /\ stream' = 0
    /\ rpc' = "loop"
    /\ UNCHANGED << is_running, clients, lock, spc, drained, stops,
                    registered_at_stop, response, reqs, resps >>
    /\ UNCHANGED << peerVars, sockVars, buildVars >>

Run ==
    \/ RunStore \/ RunSetNonblocking \/ RunLoopTest
    \/ RunAcceptOk \/ RunAcceptWouldBlock \/ RunAcceptErr
    \/ RunLock \/ RunPush \/ RunUnlock \/ RunSpawn

\* ----------------------------------------------------------- Server::stop
\* self.is_running.store(false, SeqCst), in a call of stop() that the
\* controlling thread makes when it has made fewer than n calls.
StopStoreUpTo(n) ==
    /\ spc = "idle"
    /\ stops < n
    /\ is_running' = FALSE
    /\ spc' = "lock"
    /\ registered_at_stop' = Range(clients)
    /\ UNCHANGED << clients, lock, rpc, stream, drained, stops >>
    /\ UNCHANGED << peerVars, sockVars, handlerVars, buildVars >>

\* self.clients.lock().unwrap().drain(..): the guard is a temporary of the
\* for statement and lives until the loop ends.
StopLock ==
    /\ spc = "lock"
    /\ lock = "free"
    /\ lock' = "stop"
    /\ drained' = clients
    /\ clients' = <<>>
    /\ spc' = "shutdown"
    /\ UNCHANGED << is_running, rpc, stream, stops, registered_at_stop >>
    /\ UNCHANGED << peerVars, sockVars, handlerVars, buildVars >>

\* A stop() that drains the registry without shutting the sockets down.
StopShutdown_NoShutdown ==
    /\ spc = "shutdown"
    /\ drained # <<>>
    /\ drained' = Tail(drained)
    /\ UNCHANGED << is_running, clients, lock, rpc, stream, spc, stops,
                    registered_at_stop, sockVars >>
    /\ UNCHANGED << peerVars, handlerVars, buildVars >>

\* A stop() whose loop ends at the first shutdown that fails, with the
\* handles after it dropped and not shut down.
StopShutdown_AbortsOnError ==
    /\ spc = "shutdown"
    /\ drained # <<>>
    /\ IF reset[Head(drained)]
       THEN drained' = <<>> /\ UNCHANGED shut
       ELSE /\ shut' = [shut EXCEPT ![Head(drained)] = TRUE]
            /\ drained' = Tail(drained)
    /\ UNCHANGED << is_running, clients, lock, rpc, stream, spc, stops,
                    registered_at_stop, inbuf, outbuf, reset >>
    /\ UNCHANGED << peerVars, handlerVars, buildVars >>

\* client.shutdown(Shutdown::Both): fails (not connected) on a connection the
\* peer has reset; the error is logged and the loop goes on.
StopShutdown ==
    /\ spc = "shutdown"
    /\ drained # <<>>
    /\ shut' = [shut EXCEPT ![Head(drained)] = @ \/ ~reset[Head(drained)]]
    /\ drained' = Tail(drained)
    /\ UNCHANGED << is_running, clients, lock, rpc, stream, spc, stops,
                    registered_at_stop, inbuf, outbuf, reset >>
    /\ UNCHANGED << peerVars, handlerVars, buildVars >>

\* the for loop ends, the guard is dropped; info!("Server shutting down...")
StopUnlock ==
    /\ spc = "shutdown"
    /\ drained = <<>>
    /\ lock' = "free"
    /\ spc' = "idle"
    /\ stops' = stops + 1
    /\ UNCHANGED << is_running, clients, rpc, stream, drained,
                    registered_at_stop >>
    /\ UNCHANGED << peerVars, sockVars, handlerVars, buildVars >>

StopStore == StopStoreUpTo(MaxStops)

Stop == StopStore \/ StopLock \/ StopShutdown \/ StopUnlock

\* --------------------------------------------------------- Client::handle
Min(a, b) == IF a < b THEN a ELSE b

\* The response the match on the payload builds for a decoded request.
Respond(req) ==
    IF req.tag = "Echo" THEN Echo(req.content)
    ELSE AddResponse(WrappingAdd(req.a, req.b))

\* add.a + add.b panics: the sum overflows and the build checks overflow.
AddPanics(req) ==
    req.tag = "AddRequest" /\ Overflows(req.a, req.b) /\ overflow_checks

\* while is_running.load(SeqCst) { ... }  Ok(())
HLoopTest(c) ==
    /\ hpc[c] = "loop"
    /\ hpc' = [hpc EXCEPT ![c] = IF is_running THEN "read" ELSE "ok"]
    /\ UNCHANGED << response, reqs, resps >>
    /\ UNCHANGED << serverVars, peerVars, sockVars, buildVars >>

\* A handler whose AddRequest arm builds the response and does not write it.
AfterRead_NoAddResponse(chunk) ==
    Bind(DecodeClientMessage(chunk), LAMBDA d :
        IF d.ok /\ d.value.tag # "None"
        THEN IF d.value.tag = "AddRequest"
             THEN [req |-> d.value, pc |-> "loop", response |-> None]
             ELSE [req |-> d.value, pc |-> "write", response |-> Respond(d.value)]
        ELSE [req |-> None, pc |-> "loop", response |-> None])

\* A handler that propagates a decode error instead of dropping the bytes.
AfterRead_DecodeErrorReturns(chunk) ==
    Bind(DecodeClientMessage(chunk), LAMBDA d :
        IF d.ok /\ d.value.tag # "None"
        THEN [req |-> d.value, pc |-> "write", response |-> Respond(d.value)]
        ELSE IF d.ok THEN [req |-> None, pc |-> "loop", response |-> None]
        ELSE [req |-> None, pc |-> "err", response |-> None])

\* What handle() does with the bytes of one read: the request it decodes,
\* the position it goes to and the response it holds. Undecodable bytes and
\* a message without a payload are dropped.
AfterRead(chunk) ==
    Bind(DecodeClientMessage(chunk), LAMBDA d :
        IF d.ok /\ d.value.tag # "None"
        THEN IF AddPanics(d.value)
             THEN [req |-> d.value, pc |-> "panicked", response |-> None]
             ELSE [req |-> d.value, pc |-> "write", response |-> Respond(d.value)]
        ELSE [req |-> None, pc |-> "loop", response |-> None])

\* A handler that keeps the bytes it could not decode, to decode them again
\* together with what arrives next.
HReadData_CarriesOver(c) ==
    /\ hpc[c] = "read"
    /\ ~reset[c]
    /\ inbuf[c] # <<>>
    /\ \E n \in {Min(Len(inbuf[c]), BufferSize)} :
       \E next \in {AfterRead(Take(inbuf[c], n))} :
           /\ inbuf' = [inbuf EXCEPT ![c] =
                            IF next.req = None THEN @ ELSE Drop(@, n)]
           /\ reqs' = [reqs EXCEPT ![c] =
                           IF next.req = None THEN @ ELSE Append(@, next.req)]
           /\ hpc' = [hpc EXCEPT ![c] = next.pc]
           /\ response' = [response EXCEPT ![c] = next.response]
    /\ UNCHANGED << outbuf, shut, reset, resps >>
    /\ UNCHANGED << serverVars, peerVars, buildVars >>

\* self.stream.read(&mut buffer) returns Ok(n), n > 0: the bytes are decoded
\* and the response is built.
HReadData(c) ==
    /\ hpc[c] = "read"
    /\ ~reset[c]
    /\ inbuf[c] # <<>>
    /\ \E n \in {Min(Len(inbuf[c]), BufferSize)} :
       \E next \in {AfterRead(Take(inbuf[c], n))} :
           /\ inbuf' = [inbuf EXCEPT ![c] = Drop(@, n)]
           /\ reqs' = [reqs EXCEPT ![c] =
                           IF next.req = None THEN @ ELSE Append(@, next.req)]
           /\ hpc' = [hpc EXCEPT ![c] = next.pc]
           /\ response' = [response EXCEPT ![c] = next.response]
    /\ UNCHANGED << outbuf, shut, reset, resps >>
    /\ UNCHANGED << serverVars, peerVars, buildVars >>

\* A handler that, at the end of the stream, also takes its connection out
\* of the registry.
HReadEof_Deregisters(c) ==
    /\ hpc[c] = "read"
    /\ ~reset[c]
    /\ inbuf[c] = <<>>
    /\ peer[c] = "closed" \/ shut[c]
    /\ hpc' = [hpc EXCEPT ![c] = "ok"]
    /\ clients' = SelectSeq(clients, LAMBDA d : d # c)
    /\ UNCHANGED << response, reqs, resps >>
    /\ UNCHANGED << is_running, lock, rpc, stream, spc, drained, stops,
                    registered_at_stop >>
    /\ UNCHANGED << peerVars, sockVars, buildVars >>

\* read returns Ok(0): the peer closed, or the socket was shut down; break.
HReadEof(c) ==
    /\ hpc[c] = "read"
    /\ ~reset[c]
    /\ inbuf[c] = <<>>
    /\ peer[c] = "closed" \/ shut[c]
    /\ hpc' = [hpc EXCEPT ![c] = "ok"]
    /\ UNCHANGED << response, reqs, resps >>
    /\ UNCHANGED << serverVars, peerVars, sockVars, buildVars >>

\* read returns WouldBlock (the socket is non-blocking, as where accepted
\* sockets inherit the listener's mode, and has no data): sleep 10ms and
\* test the flag again. A blocking socket keeps the thread in read until
\* data, the end of the stream or an error arrives: that thread takes none
\* of the read steps meanwhile.
HReadWouldBlock(c) ==
    /\ hpc[c] = "read"
    /\ ~reset[c]
    /\ inbuf[c] = <<>>
    /\ peer[c] = "open" /\ ~shut[c]
    /\ hpc' = [hpc EXCEPT ![c] = "loop"]
    /\ UNCHANGED << response, reqs, resps >>
    /\ UNCHANGED << serverVars, peerVars, sockVars, buildVars >>

\* read returns another error (the connection was reset): error!, break.
HReadErr(c) ==
    /\ hpc[c] = "read"
    /\ reset[c]
    /\ hpc' = [hpc EXCEPT ![c] = "ok"]
    /\ UNCHANGED << response, reqs, resps >>
    /\ UNCHANGED << serverVars, peerVars, sockVars, buildVars >>

\* The connection of the handler's stream can carry a write.
Writable(c) == ~shut[c] /\ ~reset[c]

\* Handlers that all write to the stream of the first connection.
WriteTarget_Shared(c) == 1

\* The socket the handler of c writes its response to: its own stream.
WriteTarget(c) == c

\* A handler that ignores the result of write_all and goes on with its loop.
HWrite_IgnoresError(c) ==
    /\ hpc[c] = "write"
    /\ IF ~shut[c] /\ ~reset[c]
       THEN /\ outbuf' = [outbuf EXCEPT ![c] = @ \o EncodeMessage(response[c])]
            /\ resps' = [resps EXCEPT ![c] = Append(@, response[c])]
       ELSE UNCHANGED << outbuf, resps >>
    /\ hpc' = [hpc EXCEPT ![c] = "loop"]
    /\ response' = [response EXCEPT ![c] = None]
    /\ UNCHANGED << inbuf, shut, reset, reqs >>
    /\ UNCHANGED << serverVars, peerVars, buildVars >>

\* self.stream.write_all(&response.encode_to_vec())?: the bytes reach the
\* peer's side of the connection, or the error makes handle() return Err.
HWrite(c) ==
    /\ hpc[c] = "write"
    /\ IF Writable(c)
       THEN /\ outbuf' = [outbuf EXCEPT ![WriteTarget(c)] =
                              @ \o EncodeMessage(response[c])]
            /\ resps' = [resps EXCEPT ![c] = Append(@, response[c])]
            /\ hpc' = [hpc EXCEPT ![c] = "loop"]
       ELSE /\ hpc' = [hpc EXCEPT ![c] = "err"]
            /\ UNCHANGED << outbuf, resps >>
    /\ response' = [response EXCEPT ![c] = None]
    /\ UNCHANGED << inbuf, shut, reset, reqs >>
    /\ UNCHANGED << serverVars, peerVars, buildVars >>

Handle(c) ==
    \/ HLoopTest(c) \/ HReadData(c) \/ HReadEof(c) \/ HReadWouldBlock(c)
    \/ HReadErr(c) \/ HWrite(c)

\* ------------------------------------------------------------- the peers
\* The handler thread of c is inside handle().
Handling(c) == hpc[c] \in {"loop", "read", "write"}

\* The server still holds an open descriptor of connection c that it has
\* not shut down: the connection is queued, held by run(), by its handler,
\* by the registry or by the drain of stop().
ServerOpen(c) ==
    /\ ~shut[c]
    /\ \/ c \in Range(backlog)
       \/ c = stream
       \/ Handling(c)
       \/ c \in Range(clients)
       \/ c \in Range(drained)

\* TcpStream::connect_timeout: the connection is established by the
\* listener's queue, before accept(). Connections are numbered in the order
\* they are opened.
ClientConnect(c) ==
    /\ peer[c] = "none"
    /\ PeerOps < MaxPeerOps
    /\ \A d \in Conns : d < c => peer[d] # "none"
    /\ peer' = [peer EXCEPT ![c] = "open"]
    /\ backlog' = Append(backlog, c)
    /\ UNCHANGED << sends, sent >>
    /\ UNCHANGED << serverVars, sockVars, handlerVars, buildVars >>

\* stream.write_all(&buffer); stream.flush(): the bytes of one chunk arrive
\* in the server's receive queue.
ClientSend(c, chunk) ==
    /\ peer[c] = "open"
    /\ PeerOps < MaxPeerOps
    /\ ServerOpen(c) /\ ~reset[c]
    /\ inbuf' = [inbuf EXCEPT ![c] = @ \o chunk]
    /\ sends' = sends + 1
    /\ sent' = [sent EXCEPT ![c] = Append(@, chunk)]
    /\ UNCHANGED << backlog, peer, outbuf, shut, reset >>
    /\ UNCHANGED << serverVars, handlerVars, buildVars >>

\* self.stream.take(): the stream is dropped, the peer closes.
ClientDisconnect(c) ==
    /\ peer[c] = "open"
    /\ PeerOps < MaxPeerOps
    /\ peer' = [peer EXCEPT ![c] = "closed"]
    /\ UNCHANGED << backlog, sends, sent >>
    /\ UNCHANGED << serverVars, sockVars, handlerVars, buildVars >>

\* The peer goes away abortively: the connection is reset.
ClientReset(c) ==
    /\ peer[c] = "open"
    /\ PeerOps < MaxPeerOps
    /\ peer' = [peer EXCEPT ![c] = "closed"]
    /\ reset' = [reset EXCEPT ![c] = TRUE]
    /\ UNCHANGED << backlog, sends, sent, inbuf, outbuf, shut >>
    /\ UNCHANGED << serverVars, handlerVars, buildVars >>

\* Client::receive: one read of at most 1024 bytes of what the server wrote,
\* decoded as one ServerMessage.
Receive(bytes) == DecodeServerMessage(Take(bytes, Min(Len(bytes), BufferSize)))

\* ---------------------------------------------------------- specifications
Hi == <<72, 105>>
Long == [i \in 1..1019 |-> 120]
Garbage == <<255>>

\* What a peer may send in one write. Every menu is a set of byte strings:
\* a well-formed request and bytes that are no message,
CoreMenu == { EncodeMessage(Echo(Hi)), Garbage }
\* the two kinds of request,
OrderMenu == { EncodeMessage(Echo(Hi)), EncodeMessage(AddRequest(10, 20)) }
\* additions inside and at both ends of the range of i32,
ArithMenu ==
    { EncodeMessage(AddRequest(10, 20)), EncodeMessage(AddRequest(INT_MAX, 1)),
      EncodeMessage(AddRequest(INT_MIN, -1)) }
\* a short content and one whose message is a byte longer than the buffer.
EchoMenu == { EncodeMessage(Echo(Hi)), EncodeMessage(Echo(Long)) }

NextWith(Menu) ==
    \/ Run
    \/ Stop
    \/ \E c \in Conns : Handle(c)
    \/ \E c \in Conns : ClientConnect(c)
    \/ \E c \in Conns, chunk \in Menu : ClientSend(c, chunk)
    \/ \E c \in Conns : ClientDisconnect(c)
    \/ \E c \in Conns : ClientReset(c)

\* A build without overflow checks; no menu but ArithMenu has a sum that
\* overflows, so the build makes no difference elsewhere.
Init == InitWith({FALSE})
Next == NextWith(CoreMenu)
Spec == Init /\ [][Next]_vars

NextOrder == NextWith(OrderMenu)
SpecOrder == Init /\ [][NextOrder]_vars

\* Both builds: with overflow checks (the debug and test profiles) and
\* without (the release profile).
InitArith == InitWith(BOOLEAN)
NextArith == NextWith(ArithMenu)
SpecArith == InitArith /\ [][NextArith]_vars

NextEcho == NextWith(EchoMenu)
SpecEcho == Init /\ [][NextEcho]_vars

\* A controlling thread that calls stop() once more than elsewhere: the
\* repeated stop().
StopAgain == StopStoreUpTo(MaxStops + 1)
NextTwice == Next \/ StopAgain
SpecTwice == Init /\ [][NextTwice]_vars

\* A server that is not stopped, with peers that write and never close: the
\* steps a handler takes while it serves.
NextRead ==
    \/ Run
    \/ \E c \in Conns :
          HLoopTest(c) \/ HReadData(c) \/ HReadWouldBlock(c) \/ HWrite(c)
    \/ \E c \in Conns : ClientConnect(c)
    \/ \E c \in Conns, chunk \in EchoMenu : ClientSend(c, chunk)
SpecRead == Init /\ [][NextRead]_vars

\* Every thread that can take a step eventually takes one: the thread of
\* run(), the thread inside stop(), and each handler thread. A handler in
\* read without data is not obliged to return (a blocking socket), and the
\* peers are obliged to nothing.
HandleProgress(c) ==
    HLoopTest(c) \/ HReadData(c) \/ HReadEof(c) \/ HReadErr(c) \/ HWrite(c)

Fairness ==
    /\ WF_vars(Run)
    /\ WF_vars(Stop)
    /\ \A c \in Conns : WF_vars(HandleProgress(c))

FairSpec == Init /\ [][Next]_vars /\ Fairness

\* ------------------------------------------------------------------ claims
StopCalled == stops > 0 \/ spc # "idle"
StopReturned == stops > 0 /\ spc = "idle"
RunReturned == rpc \in {"ok", "err"}
InAcceptLoop ==
    rpc \in {"loop", "accept", "warn", "lock", "push", "unlock", "spawn"}

\* C1: once stop() has returned, run() eventually returns, in every
\* interleaving of stop() with run(), stop() before the first statement of
\* run() included. (The claim says "returns Ok"; run() returning at all is
\* what fails.)
C1_RunReturnsAfterStop == StopReturned ~> RunReturned

\* C3: after stop() has returned, every handler that is or comes to be
\* inside handle() eventually leaves it.
C3_HandlersTerminateAfterStop ==
    \A c \in Conns : (StopReturned /\ Handling(c)) ~> ~Handling(c)

\* C2: when stop() has returned, every connection that was in the registry
\* when stop() was called is down in both directions: shut down by stop(),
\* or reset by its peer before stop() reached it.
C2_StopShutsDownRegistered ==
    StopReturned => \A c \in registered_at_stop : shut[c] \/ reset[c]

\* stop() has returned with two connections registered, both shut down,
\* one handler still in read and one holding a response.
C2_Witness ==
    /\ StopReturned
    /\ Cardinality(registered_at_stop) >= 2
    /\ \A c \in registered_at_stop : shut[c]
    /\ \E c, d \in registered_at_stop : hpc[c] = "read" /\ hpc[d] = "write"

\* The response the specification gives for a request: the echo of the
\* content, or the sum in 32-bit two's complement.
Expected(req) ==
    IF req.tag = "Echo" THEN Echo(req.content)
    ELSE AddResponse(WrappingAdd(req.a, req.b))

Last(s) == s[Len(s)]

\* C4: on every connection the responses written are, one to one and in
\* order, the responses to a prefix of the requests decoded; the handler is
\* never more than the one request it is answering behind.
C4_ResponsesFollowRequests ==
    \A c \in Conns :
        /\ Len(resps[c]) <= Len(reqs[c])
        /\ \A i \in 1..Len(resps[c]) : resps[c][i] = Expected(reqs[c][i])
        /\ hpc[c] \in {"loop", "read"} => Len(resps[c]) = Len(reqs[c])
        /\ hpc[c] = "write" =>
             /\ Len(reqs[c]) = Len(resps[c]) + 1
             /\ response[c] = Expected(Last(reqs[c]))

\* An echo and then an addition were answered, in that order.
C4_Witness ==
    \E c \in Conns :
        /\ reqs[c] = << Echo(Hi), AddRequest(10, 20) >>
        /\ resps[c] = << Echo(Hi), AddResponse(30) >>

RECURSIVE EncodeAll(_)
EncodeAll(ms) ==
    IF ms = <<>> THEN <<>> ELSE EncodeMessage(Head(ms)) \o EncodeAll(Tail(ms))

\* C5: the bytes a connection's peer is sent are the encoded responses to
\* the requests decoded on that connection, and each of those requests is a
\* message that connection's peer sent.
C5_ResponsesStayOnConnection ==
    \A c \in Conns :
        /\ Len(resps[c]) <= Len(reqs[c])
        /\ outbuf[c] = EncodeAll([i \in 1..Len(resps[c]) |-> Expected(reqs[c][i])])
        /\ \A i \in 1..Len(reqs[c]) :
             \E j \in 1..Len(sent[c]) : sent[c][j] = EncodeMessage(reqs[c][i])

\* Two connections were answered, each with the response to its own request.
C5_Witness ==
    /\ sent[1] = << EncodeMessage(Echo(Hi)) >>
    /\ sent[2] = << EncodeMessage(AddRequest(10, 20)) >>
    /\ outbuf[1] = EncodeMessage(Echo(Hi))
    /\ outbuf[2] = EncodeMessage(AddResponse(30))

\* C6: every AddRequest(a, b) is answered with the 32-bit wrapped sum and
\* the handler keeps running: no handler dies in the addition.
C6_AddWraps ==
    \A c \in Conns :
        /\ hpc[c] # "panicked"
        /\ \A i \in 1..Len(resps[c]) :
             reqs[c][i].tag = "AddRequest" =>
                resps[c][i] = AddResponse(WrappingAdd(reqs[c][i].a, reqs[c][i].b))

\* The handler of c has read all its peer sent and waits for more, on a
\* connection in good order.
Settled(c) ==
    /\ inbuf[c] = <<>>
    /\ hpc[c] \in {"loop", "read"}
    /\ peer[c] = "open" /\ ~shut[c] /\ ~reset[c]

\* C7: a peer that has sent one Echo(content), of any length, and whose
\* bytes the handler has read, receives Response::Echo with that content.
C7_EchoIdentical ==
    \A c \in Conns :
        (Len(sent[c]) = 1 /\ Settled(c)) =>
            Receive(outbuf[c]) = DecodeClientMessage(sent[c][1])

\* The step in which read returns to the handler of c.
LeavesRead(c) == hpc[c] = "read" /\ hpc'[c] # "read"

\* The step in which the handler of c leaves write_all.
LeavesWrite(c) == hpc[c] = "write" /\ hpc'[c] # "write"

\* A step of the handler of c leaves the flag, the Acceptor, the registry,
\* stop() and every other connection and handler as they are.
OnlyHandlerOf(c) ==
    /\ UNCHANGED << is_running, clients, lock, rpc, stream, spc, drained,
                    stops, backlog, peer, shut, reset >>
    /\ \A d \in Conns \ {c} :
         /\ hpc'[d] = hpc[d]
         /\ inbuf'[d] = inbuf[d] /\ outbuf'[d] = outbuf[d]
         /\ response'[d] = response[d]
         /\ reqs'[d] = reqs[d] /\ resps'[d] = resps[d]

\* C8: when read returns zero bytes because the peer closed, the handler
\* returns Ok and nothing else changes.
C8_PeerCloseFrame ==
    [][\A c \in Conns :
          (LeavesRead(c) /\ inbuf[c] = <<>> /\ peer[c] = "closed"
                         /\ ~reset[c] /\ ~shut[c])
          => (hpc'[c] = "ok" /\ OnlyHandlerOf(c))]_vars

\* The peer of connection 1 closed and its handler returned Ok; the server
\* was never stopped, the Acceptor is in accept and the handler of
\* connection 2 holds a response.
C8_Witness ==
    /\ hpc[1] = "ok" /\ peer[1] = "closed" /\ ~reset[1] /\ ~shut[1]
    /\ is_running /\ ~StopCalled /\ rpc = "accept"
    /\ hpc[2] = "write"

\* The bytes the read of this step hands to the handler of c.
ChunkRead(c) == Take(inbuf[c], Len(inbuf[c]) - Len(inbuf'[c]))
ReadsData(c) == LeavesRead(c) /\ Len(inbuf'[c]) < Len(inbuf[c])
IsRequest(d) == d.ok /\ d.value.tag # "None"

\* C9: bytes that do not decode as a request produce no response and leave
\* the handler in its loop; bytes that do are answered, whatever was read
\* before them.
C9_DecodeFailureIsDropped ==
    [][\A c \in Conns :
          ReadsData(c) =>
             \E d \in {DecodeClientMessage(ChunkRead(c))} :
                IF IsRequest(d)
                THEN hpc'[c] = "write" /\ response'[c] = Expected(d.value)
                ELSE /\ hpc'[c] = "loop"
                     /\ UNCHANGED << outbuf, resps, reqs, response >>
                     /\ OnlyHandlerOf(c)]_vars

\* A peer sent bytes that are no message and then an Echo; the first read
\* was dropped, the second answered, and the handler is still in its loop.
C9_Witness ==
    /\ sent[1] = << Garbage, EncodeMessage(Echo(Hi)) >>
    /\ resps[1] = << Echo(Hi) >>
    /\ hpc[1] \in {"loop", "read"}

\* C10: a failed write makes handle() return Err, a read error makes it
\* return Ok, and neither changes anything but that handler.
C10_IoErrorFrame ==
    [][\A c \in Conns :
          /\ (LeavesWrite(c) /\ (shut[c] \/ reset[c]))
                => (hpc'[c] = "err" /\ OnlyHandlerOf(c))
          /\ (LeavesRead(c) /\ reset[c])
                => (hpc'[c] = "ok" /\ OnlyHandlerOf(c))]_vars

\* A write failed on a connection its peer had reset; the server was never
\* stopped, the Acceptor is in its loop and another handler is running.
C10_Witness ==
    \E c, d \in Conns :
        /\ c # d
        /\ hpc[c] = "err" /\ reset[c]
        /\ is_running /\ ~StopCalled /\ InAcceptLoop
        /\ Handling(d)

\* C11: run() returns an error from set_nonblocking alone: no step taken
\* inside the accept loop makes it return Err; and it returns Ok only with
\* the running flag cleared.
C11_RunErrOnlyFromSetNonblocking ==
    [][/\ (rpc # "err" /\ rpc' = "err") => rpc = "nonblock"
       /\ (rpc # "ok" /\ rpc' = "ok") => ~is_running]_vars

\* C12: stop() calls shutdown on every handle it drained, one after the
\* other and whether or not the call fails: a step of the drain takes
\* exactly the first remaining handle, which is then down (shut down by this
\* call, or reset by its peer so that the call failed), and stop() goes on;
\* it returns only with no handle left, the registry empty.
C12_ShutdownErrorIsSkipped ==
    [][/\ (spc = "shutdown" /\ drained' # drained) =>
             /\ drained # <<>> /\ drained' = Tail(drained)
             /\ shut'[Head(drained)] \/ reset[Head(drained)]
             /\ spc' = "shutdown" /\ lock' = "stop" /\ clients' = clients
       /\ (spc = "shutdown" /\ spc' # "shutdown") =>
             /\ drained = <<>> /\ clients' = <<>>
             /\ spc' = "idle" /\ stops' = stops + 1]_vars

\* stop() has returned; the shutdown of the first handle it drained failed,
\* its peer having reset the connection, and the second was shut down.
C12_Witness ==
    /\ stops = 1 /\ spc = "idle"
    /\ registered_at_stop = {1, 2}
    /\ reset[1] /\ ~shut[1]
    /\ shut[2]

\* C13: a call of stop() made after an earlier call has returned finds the
\* registry empty, shuts down nothing, and returns with the running flag
\* false and the registry empty, as the first call left them.
C13_SecondStopIsNoOp ==
    [][(stops >= 1 /\ spc # "idle") =>
          /\ (spc = "lock" /\ spc' = "shutdown") => clients = <<>>
          /\ shut' = shut
          /\ spc' = "idle" => (~is_running' /\ clients' = <<>>)]_vars

\* The step in which accept() returns to run() without a connection.
AcceptFails == rpc = "accept" /\ rpc' \notin {"accept", "lock"}

\* C14: an accept() that fails leaves run() in its loop and the running
\* flag, the registry, the pending connections and every handler and
\* connection as they are; after the warning the loop tests the flag and
\* calls accept() again, and an accept() with a connection pending can take it.
C14_AcceptErrorIsNonFatal ==
    /\ []((rpc = "accept" /\ backlog # <<>>) => ENABLED RunAcceptOk)
    /\ [][/\ AcceptFails =>
               /\ rpc' \in {"loop", "warn"}
               /\ UNCHANGED << is_running, clients, lock, stream, backlog,
                               sockVars, handlerVars >>
          /\ (rpc = "warn" /\ rpc' # "warn") =>
               rpc' = IF is_running THEN "accept" ELSE "ok"]_vars

\* accept() has failed with a connection pending, while the handler of an
\* earlier connection, registered, holds a response; the server runs.
C14_Witness ==
    /\ rpc = "warn" /\ is_running /\ ~StopCalled
    /\ backlog = << 2 >>
    /\ hpc[1] = "write" /\ clients = << 1 >>

\* The holder of the registry lock is about to make, or is inside, a socket
\* call: run() duplicating the handle of the accepted stream, stop()
\* shutting down a handle it drained.
RunInIoUnderLock == lock = "run" /\ rpc = "push"
StopInIoUnderLock == lock = "stop" /\ spc = "shutdown" /\ drained # <<>>

\* C15: the registry lock is never held while its holder makes a socket
\* call, so that no thread waits for the lock while the holder is in one.
C15_NoIoUnderLock == ~RunInIoUnderLock /\ ~StopInIoUnderLock

\* The connection c has been taken from the listener by accept().
Accepted(c) == peer[c] # "none" /\ c \notin Range(backlog)

\* No call of stop() has drained the registry yet.
NoDrainYet == stops = 0 /\ spc \in {"idle", "lock"}

\* run() is not between an accept() that returned a connection and the
\* start of that connection's handler.
NoAcceptInHand == rpc \notin {"lock", "push", "unlock", "spawn"}

\* C16: a handler is started only for the connection run() has just
\* registered, and once per connection; every accepted connection has its
\* handler started as soon as run() has dealt with it; and until stop()
\* drains, the connection of every running handler is in the registry.
C16_RegisteredBeforeHandled ==
    /\ [](NoAcceptInHand => \A c \in Conns : Accepted(c) => hpc[c] # "none")
    /\ [](NoDrainYet => \A c \in Conns : Handling(c) => c \in Range(clients))
    /\ [][\A c \in Conns :
            /\ (hpc[c] = "none" /\ hpc'[c] # "none") =>
                  /\ rpc = "spawn" /\ stream = c /\ hpc'[c] = "loop"
                  /\ NoDrainYet => c \in Range(clients)
            /\ hpc[c] # "none" => hpc'[c] # "none"]_vars

\* The connections accepted so far, in the order of their acceptance:
\* connections are numbered in the order in which they were queued.
AcceptedInOrder == [i \in 1..Cardinality({c \in Conns : Accepted(c)}) |-> i]

\* C17: the registry changes only by the push of the stream run() has just
\* accepted and by the drain of stop(), each under the lock; no step of a
\* handler changes it; its entries are in acceptance order; and until the
\* first drain it holds every connection accepted, closed ones included.
C17_RegistryOnlyPushAndDrain ==
    /\ []((NoDrainYet /\ NoAcceptInHand) => clients = AcceptedInOrder)
    /\ [](\A i, j \in 1..Len(clients) : i < j => clients[i] < clients[j])
    /\ [][/\ clients' # clients =>
               \/ rpc = "push" /\ lock = "run" /\ clients' = Append(clients, stream)
               \/ spc = "lock" /\ lock' = "stop" /\ clients' = <<>>
          /\ \A c \in Conns : hpc'[c] # hpc[c] => clients' = clients]_vars

C19_FlagMonotone ==
    /\ [](~StopCalled => is_running)
    /\ [][~is_running => ~is_running']_vars

\* C20: once stop() and run() have both returned, the registry is empty: no
\* accepted connection is left in it with a handle that nothing shut down.
C20_NothingLeftRegistered ==
    (StopReturned /\ RunReturned) =>
        /\ clients = <<>>
        /\ \A c \in Conns : (Accepted(c) /\ c \in Range(clients)) => shut[c]

\* C21: after stop() has returned no response is written on any connection:
\* a write_all made then fails and ends the handler with Err, and a handler
\* that tests the flag once it is cleared returns without a read or a write.
C21_NoWriteAfterStop ==
    [][\A c \in Conns :
          /\ StopReturned =>
                /\ resps'[c] = resps[c] /\ outbuf'[c] = outbuf[c]
                /\ LeavesWrite(c) => hpc'[c] = "err"
          /\ (hpc[c] = "loop" /\ ~is_running /\ hpc'[c] # "loop") =>
                hpc'[c] = "ok"]_vars
====
